---- MODULE Spec2Model ----
(***************************************************************************)
(* Model of the Dataframes native core: the sort engine                    *)
(* (native_libs/src/Sort.cpp), the expression interpreter                  *)
(* (Interpreter.cpp, kept here as src/unnamed/part_000) and the            *)
(* spreadsheet import (native_libs/src/XLSX.cpp).                          *)
(*                                                                         *)
(* A cell of an arrow array is a record [valid, value]: the validity bit   *)
(* and the slot of the value buffer.  A column is a field (name, type) and *)
(* a sequence of chunks, a chunk a sequence of cells.  Row indices are     *)
(* 0-based as in the code; TLA+ sequences are 1-based, so row i of a       *)
(* vector v is v[i + 1].                                                   *)
(***************************************************************************)
EXTENDS Integers, Sequences, FiniteSets, TLC

VARIABLES
    table,      \* the caller's table: a sequence of columns
    call,       \* the entry point the caller called, with its scalar arguments
    expr,       \* the caller's expression tree handed to the interpreter
    sortBy,     \* the caller's sort-key list, most significant key first
    pc,         \* where the running call stands
    keys,       \* sortPermutation's by-value copy of the key list (what is left of it)
    indices,    \* the Permutation: built by sortPermutation, or passed to permute
    ret,        \* what the call returned
    err         \* the message of the exception that ended the call ("" when none)

vars == <<table, call, expr, sortBy, pc, keys, indices, ret, err>>

----------------------------------------------------------------------------
(* Bounds of the model *)

\* rows of a table handed to the sort engine
MaxRows == 3
\* rows of a table handed to permute
MaxPermRows == 3
\* rows of a table the interpreter is bound to
MaxInterpRows == 3
\* rows of a table sorted by keys whose tags may lie outside their enumerations
MaxTagRows == 2
\* rows of an imported sheet (sheet.highest_row())
MaxSheetRows == 2

\* column types a caller's list may hold beyond the sheet's column count
MaxExtraTypes == 1

\* the values a key cell holds
KeyValues == {0, 1}
\* the values a cell of a permuted table holds
PermValues == {0, 1}
\* the values an int64 cell of an interpreted table holds
IntValues == {1, 2, 3}
\* the int64 literals and the double literals of an expression (a double is
\* written as the integer it equals)
IntLiterals == {2, 10}
DoubleLiterals == {2}

----------------------------------------------------------------------------
(* Data model *)

Cell(v) == [valid |-> TRUE, value |-> v]
\* a null slot: validity bit cleared (builders leave the value slot zeroed)
NullCell == [valid |-> FALSE, value |-> 0]

SortOrder == {"Ascending", "Descending"}
NullPosition == {"Before", "After"}

NoReturn == [kind |-> "none"]

\* no expression tree: the call is not one of the interpreter's
NoExpression == [node |-> "none"]

RECURSIVE Flatten(_)
\* the cells of a chunked array, chunk after chunk
Flatten(chunks) ==
    IF chunks = <<>> THEN <<>> ELSE Head(chunks) \o Flatten(Tail(chunks))

\* arrow::Column::length()
length(column) == Len(Flatten(column.chunks))

\* arrow::Column::null_count()
null_count(column) ==
    Cardinality({i \in 1..length(column) : ~Flatten(column.chunks)[i].valid})

\* arrow::Table::num_rows(): the length of the first column, 0 without columns
num_rows(t) == IF t = <<>> THEN 0 ELSE length(t[1])

\* iotaVector<int64_t>(n): 0, 1, ..., n-1
iotaVector(n) == [i \in 1..n |-> i - 1]

\* the reversal left out: the keys are taken most significant first
reverseSkipped(s) == s

\* std::reverse
reverse(s) == [i \in 1..Len(s) |-> s[Len(s) + 1 - i]]

----------------------------------------------------------------------------
(* Sort.cpp: dispatch of the runtime tags *)

\* the switch without its default: any tag goes on into the continuation
dispatchSortOrderNoDefault(order) == TRUE

\* dispatch(SortOrder, f): TRUE when a case of the switch takes the tag
dispatchSortOrder(order) == order \in SortOrder

\* dispatch(NullPosition, f)
dispatchNullPosition(nullPosition) == nullPosition \in NullPosition

----------------------------------------------------------------------------
(* Sort.cpp: permute *)

RECURSIVE locateIn(_, _, _)
\* ChunkAccessor::locate: the chunk (1-based) holding row `index` and the row's
\* offset in it (0-based)
locateIn(chunks, index, k) ==
    IF index < Len(chunks[k])
        THEN [chunk |-> k, indexInChunk |-> index]
        ELSE locateIn(chunks, index - Len(chunks[k]), k + 1)

locate(chunks, index) == locateIn(chunks, index, 1)

\* the validity bit never looked at: a null slot is appended as its value
appendedCellNoValidity(column, nullable, index) ==
    LET at == locate(column.chunks, index)
        cell == column.chunks[at.chunk][at.indexInChunk + 1]
    IN  Cell(cell.value)

\* the cell permuteInnerToArray appends for one index
appendedCell(column, nullable, index) ==
    LET at == locate(column.chunks, index)
        cell == column.chunks[at.chunk][at.indexInChunk + 1]
    IN  IF nullable
            THEN IF cell.valid THEN Cell(cell.value) ELSE NullCell
            ELSE Cell(cell.value)

\* permuteInnerToArray: one freshly built array, taking indices in order
permuteInnerToArray(column, idx) ==
    LET nullable == null_count(column) # 0
    IN  [i \in 1..Len(idx) |-> appendedCell(column, nullable, idx[i])]

\* permuteInner on a column: the field kept, one chunk
permuteInnerColumn(column, idx) ==
    [name |-> column.name, type |-> column.type,
     chunks |-> <<permuteInnerToArray(column, idx)>>]

\* permuteInner on a table: every column permuted, the schema kept
permuteInnerTable(t, idx) ==
    [c \in 1..Len(t) |-> permuteInnerColumn(t[c], idx)]

\* isPermuteId
isPermuteId(idx) == \A i \in 1..Len(idx) : idx[i] = i - 1

\* permuteToArray: the column's only chunk itself, or a built array
permuteToArray(column, idx) ==
    IF isPermuteId(idx) /\ Len(column.chunks) = 1
        THEN [kind |-> "array", shared |-> TRUE, value |-> column.chunks[1]]
        ELSE [kind |-> "array", shared |-> FALSE,
              value |-> permuteInnerToArray(column, idx)]

\* permute on a column
permuteColumn(column, idx) ==
    IF isPermuteId(idx)
        THEN [kind |-> "column", shared |-> TRUE, value |-> column]
        ELSE [kind |-> "column", shared |-> FALSE,
              value |-> permuteInnerColumn(column, idx)]

\* permute on a table
permuteTable(t, idx) ==
    IF isPermuteId(idx)
        THEN [kind |-> "table", shared |-> TRUE, value |-> t]
        ELSE [kind |-> "table", shared |-> FALSE,
              value |-> permuteInnerTable(t, idx)]

----------------------------------------------------------------------------
(* Sort.cpp: sortPermutation *)

\* the order tag ignored: always the ascending comparison
compareRawValuesAscendingOnly(order, lhs, rhs) == lhs < rhs

\* compareRawValues
compareRawValues(order, lhs, rhs) ==
    IF order = "Ascending" THEN lhs < rhs ELSE lhs > rhs

\* the null placement turned around under a descending order
compareValuesNullsFollowOrder(nullable, order, nulls, lhs, rhs) ==
    IF nullable
        THEN IF lhs.valid /\ rhs.valid
                 THEN IF order = "Ascending"
                          THEN lhs.value < rhs.value
                          ELSE lhs.value > rhs.value
             ELSE IF ~lhs.valid /\ ~rhs.valid
                 THEN FALSE
             ELSE IF lhs.valid
                 THEN (nulls = "After") = (order = "Ascending")
             ELSE (nulls = "Before") = (order = "Ascending")
        ELSE IF order = "Ascending"
                 THEN lhs.value < rhs.value
                 ELSE lhs.value > rhs.value

\* compareValues: lhs strictly before rhs
compareValues(nullable, order, nulls, lhs, rhs) ==
    IF nullable
        THEN IF lhs.valid /\ rhs.valid
                 THEN compareRawValues(order, lhs.value, rhs.value)
             ELSE IF ~lhs.valid /\ ~rhs.valid
                 THEN FALSE
             ELSE IF lhs.valid
                 THEN nulls = "After"
             ELSE nulls = "Before"
        ELSE compareRawValues(order, lhs.value, rhs.value)

\* toVector<ActualObservedType>: the column's cells in one dense vector
toVector(column) == Flatten(column.chunks)

\* a comparator that is not strict: a tie counts as "before"
indexLessOrTie(values, nullable, order, nulls, lhsIndex, rhsIndex) ==
    ~compareValues(nullable, order, nulls, values[rhsIndex + 1], values[lhsIndex + 1])

\* the comparator std::stable_sort is given: looks both indices up in the vector
indexLess(values, nullable, order, nulls, lhsIndex, rhsIndex) ==
    compareValues(nullable, order, nulls, values[lhsIndex + 1], values[rhsIndex + 1])

RECURSIVE linearInsert(_, _, _, _, _, _)
\* one insertion of std::stable_sort's insertion pass (the whole sort below 15
\* elements): x moves left past every element it is strictly less than
linearInsert(sorted, x, values, nullable, order, nulls) ==
    IF sorted = <<>>
        THEN <<x>>
    ELSE IF indexLess(values, nullable, order, nulls, x, sorted[Len(sorted)])
        THEN Append(linearInsert(SubSeq(sorted, 1, Len(sorted) - 1), x,
                                 values, nullable, order, nulls),
                    sorted[Len(sorted)])
    ELSE Append(sorted, x)

RECURSIVE stable_sort(_, _, _, _, _)
\* std::stable_sort(indices.begin(), indices.end(), comparator)
stable_sort(idx, values, nullable, order, nulls) ==
    IF idx = <<>>
        THEN <<>>
        ELSE linearInsert(stable_sort(SubSeq(idx, 1, Len(idx) - 1),
                                      values, nullable, order, nulls),
                          idx[Len(idx)], values, nullable, order, nulls)

\* sortPermutationInner<id, nullable, order, nulls>
sortPermutationInner(idx, column, nullable, order, nulls) ==
    stable_sort(idx, toVector(column), nullable, order, nulls)

\* sortPermutation(indices, sortBy, order, nullPosition): one key's stage
sortPermutationStage(idx, column, order, nullPosition) ==
    IF ~dispatchNullPosition(nullPosition)
        THEN [ok |-> FALSE, what |-> "dispatch: invalid value", indices |-> idx]
    ELSE IF ~dispatchSortOrder(order)
        THEN [ok |-> FALSE, what |-> "dispatch: invalid value", indices |-> idx]
    ELSE [ok |-> TRUE, what |-> "",
          indices |-> sortPermutationInner(idx, column, null_count(column) # 0,
                                           order, nullPosition)]

----------------------------------------------------------------------------
(* The sort engine as a state machine: a call of sortTable, which runs      *)
(* sortPermutation key by key and then permute.                            *)

\* the identity sized to the number of keys instead of the first key's rows
sortPermutationEnterKeyCount ==
    /\ call.op = "sortTable"
    /\ pc = "ready"
    /\ IF sortBy = <<>>
          THEN /\ pc' = "failed"
               /\ err' = "no column to sort by"
               /\ UNCHANGED <<keys, indices>>
          ELSE /\ pc' = "stage"
               /\ indices' = iotaVector(Len(sortBy))
               /\ keys' = reverse(sortBy)
               /\ err' = err
    /\ UNCHANGED <<table, call, expr, sortBy, ret>>

\* the check for an empty list left out: no key, no stage, an empty permutation
sortPermutationEnterUnchecked ==
    /\ call.op = "sortTable"
    /\ pc = "ready"
    /\ pc' = "stage"
    /\ indices' = IF sortBy = <<>>
                      THEN <<>>
                      ELSE iotaVector(length(table[sortBy[1].column]))
    /\ keys' = reverse(sortBy)
    /\ UNCHANGED <<table, call, expr, sortBy, ret, err>>

\* the list reversed in place: the caller's list comes back reversed
sortPermutationEnterInPlace ==
    /\ call.op = "sortTable"
    /\ pc = "ready"
    /\ IF sortBy = <<>>
          THEN /\ pc' = "failed"
               /\ err' = "no column to sort by"
               /\ UNCHANGED <<keys, indices, sortBy>>
          ELSE /\ pc' = "stage"
               /\ indices' = iotaVector(length(table[sortBy[1].column]))
               /\ keys' = reverse(sortBy)
               /\ sortBy' = reverse(sortBy)
               /\ err' = err
    /\ UNCHANGED <<table, call, expr, ret>>

\* sortPermutation(sortBy), lines 169-174: the empty list throws; otherwise the
\* identity sized to the first key's column, and the copy of the list reversed
sortPermutationEnter ==
    /\ call.op = "sortTable"
    /\ pc = "ready"
    /\ IF sortBy = <<>>
          THEN /\ pc' = "failed"
               /\ err' = "no column to sort by"
               /\ UNCHANGED <<keys, indices>>
          ELSE /\ pc' = "stage"
               /\ indices' = iotaVector(length(table[sortBy[1].column]))
               /\ keys' = reverse(sortBy)
               /\ err' = err
    /\ UNCHANGED <<table, call, expr, sortBy, ret>>

\* one turn of the loop of lines 175-178
sortPermutationLoop ==
    /\ pc = "stage"
    /\ keys # <<>>
    /\ LET key == Head(keys)
           r == sortPermutationStage(indices, table[key.column], key.order, key.nulls)
       IN  IF r.ok
               THEN /\ indices' = r.indices
                    /\ keys' = Tail(keys)
                    /\ UNCHANGED <<pc, err>>
               ELSE /\ pc' = "failed"
                    /\ err' = r.what
                    /\ UNCHANGED <<keys, indices>>
    /\ UNCHANGED <<table, call, expr, sortBy, ret>>

\* line 180: sortPermutation returns the indices
sortPermutationReturn ==
    /\ pc = "stage"
    /\ keys = <<>>
    /\ pc' = "sorted"
    /\ ret' = [kind |-> "permutation", shared |-> FALSE, value |-> indices]
    /\ UNCHANGED <<table, call, expr, sortBy, keys, indices, err>>

\* sortTable, line 213: the table permuted by the permutation just returned
sortTableReturn ==
    /\ pc = "sorted"
    /\ pc' = "done"
    /\ ret' = permuteTable(table, ret.value)
    /\ UNCHANGED <<table, call, expr, sortBy, keys, indices, err>>

----------------------------------------------------------------------------
(* Sort requests: the key columns are the columns A and B of one table,    *)
(* n rows each (the Table invariant), A in one chunk, B in two chunks when *)
(* it has two rows or more.                                                *)

Cells(values) == {NullCell} \cup {Cell(v) : v \in values}

Vectors(values, n) == [1..n -> Cells(values)]

TwoChunks(v) ==
    IF Len(v) < 2 THEN <<v>> ELSE <<SubSeq(v, 1, 1), SubSeq(v, 2, Len(v))>>

ColumnA(v) == [name |-> "A", type |-> "int64", chunks |-> <<v>>]

ColumnB(v) == [name |-> "B", type |-> "int64", chunks |-> TwoChunks(v)]

SortTables ==
    UNION {{<<ColumnA(a), ColumnB(b)>> :
            a \in Vectors(KeyValues, n), b \in Vectors(KeyValues, n)} : n \in 0..MaxRows}

KeyColumns == {1, 2}

SortKeys == [column : KeyColumns, order : SortOrder, nulls : NullPosition]

\* no key, one key on either column, or two keys: A, then B
SortKeyLists ==
    {K \in UNION {[1..k -> SortKeys] : k \in 0..Cardinality(KeyColumns)} :
        Len(K) = 2 => (K[1].column = 1 /\ K[2].column = 2)}

Init ==
    /\ table \in SortTables
    /\ call = [op |-> "sortTable", column |-> 0]
    /\ expr = NoExpression
    /\ sortBy \in SortKeyLists
    /\ pc = "ready"
    /\ keys = <<>>
    /\ indices = <<>>
    /\ ret = NoReturn
    /\ err = ""

Next ==
    \/ sortPermutationEnter
    \/ sortPermutationLoop
    \/ sortPermutationReturn
    \/ sortTableReturn

Spec == Init /\ [][Next]_vars

\* Requests on one key column without null and without duplicate: the column's
\* rows are distinct values of 0..MaxRows
DistinctVectors(n) ==
    {v \in [1..n -> {Cell(x) : x \in 0..MaxRows}] :
        \A i, j \in 1..n : i # j => v[i] # v[j]}

InitDistinct ==
    /\ table \in UNION {{<<ColumnA(v), ColumnB(v)>> : v \in DistinctVectors(n)} :
                        n \in 0..MaxRows}
    /\ call = [op |-> "sortTable", column |-> 0]
    /\ expr = NoExpression
    /\ sortBy \in [1..1 -> SortKeys]
    /\ pc = "ready"
    /\ keys = <<>>
    /\ indices = <<>>
    /\ ret = NoReturn
    /\ err = ""

SpecDistinct == InitDistinct /\ [][Next]_vars

\* Requests whose keys carry any value of the tags' underlying integer type: a
\* declared enumerator, or a value none of dispatch's cases names
OutOfEnumeration == "OutOfEnumeration"

SortOrderTags == SortOrder \cup {OutOfEnumeration}

NullPositionTags == NullPosition \cup {OutOfEnumeration}

TaggedKeys == [column : KeyColumns, order : SortOrderTags, nulls : NullPositionTags]

\* no key, one key on either column, or two keys: A, then B
TaggedKeyLists ==
    {K \in UNION {[1..k -> TaggedKeys] : k \in 0..Cardinality(KeyColumns)} :
        Len(K) = 2 => (K[1].column = 1 /\ K[2].column = 2)}

TaggedTables ==
    UNION {{<<ColumnA(a), ColumnB(b)>> :
            a \in Vectors(KeyValues, n), b \in Vectors(KeyValues, n)} :
           n \in 0..MaxTagRows}

InitTagged ==
    /\ table \in TaggedTables
    /\ call = [op |-> "sortTable", column |-> 0]
    /\ expr = NoExpression
    /\ sortBy \in TaggedKeyLists
    /\ pc = "ready"
    /\ keys = <<>>
    /\ indices = <<>>
    /\ ret = NoReturn
    /\ err = ""

SpecTagged == InitTagged /\ [][Next]_vars

----------------------------------------------------------------------------
(* Calls of permute and permuteToArray.  The table has a column A of any   *)
(* cells, in one chunk or split in two, and a column B that numbers the    *)
(* rows, without null, in two chunks when it has two rows or more.  The    *)
(* caller's index sequence is any sequence of at most n row indices.       *)

\* v in one chunk (s = 0) or split after its first s rows
SplitAt(v, s) ==
    IF s = 0 THEN <<v>> ELSE <<SubSeq(v, 1, s), SubSeq(v, s + 1, Len(v))>>

PermTables ==
    UNION {{<<[name |-> "A", type |-> "int64", chunks |-> SplitAt(a, s)],
              ColumnB([i \in 1..n |-> Cell(i - 1)])>> :
            a \in Vectors(PermValues, n), s \in 0..(IF n = 0 THEN 0 ELSE n - 1)} :
           n \in 0..MaxPermRows}

IndexSequences(n) == UNION {[1..k -> 0..(n - 1)] : k \in 0..n}

InitPermute ==
    /\ table \in PermTables
    /\ call = [op |-> "none", column |-> 0]
    /\ expr = NoExpression
    /\ sortBy = <<>>
    /\ pc = "ready"
    /\ keys = <<>>
    /\ indices = <<>>
    /\ ret = NoReturn
    /\ err = ""

\* permute(table, indices), lines 202-208
permuteTableCall ==
    /\ call.op = "none"
    /\ pc = "ready"
    /\ \E idx \in IndexSequences(num_rows(table)) :
         /\ indices' = idx
         /\ call' = [op |-> "permuteTable", column |-> 0]
         /\ ret' = permuteTable(table, idx)
    /\ pc' = "done"
    /\ UNCHANGED <<table, expr, sortBy, keys, err>>

\* permute(column, indices), lines 194-200
permuteColumnCall ==
    /\ call.op = "none"
    /\ pc = "ready"
    /\ \E c \in 1..Len(table), idx \in IndexSequences(num_rows(table)) :
         /\ indices' = idx
         /\ call' = [op |-> "permuteColumn", column |-> c]
         /\ ret' = permuteColumn(table[c], idx)
    /\ pc' = "done"
    /\ UNCHANGED <<table, expr, sortBy, keys, err>>

\* permuteToArray(column, indices), lines 186-192
permuteToArrayCall ==
    /\ call.op = "none"
    /\ pc = "ready"
    /\ \E c \in 1..Len(table), idx \in IndexSequences(num_rows(table)) :
         /\ indices' = idx
         /\ call' = [op |-> "permuteToArray", column |-> c]
         /\ ret' = permuteToArray(table[c], idx)
    /\ pc' = "done"
    /\ UNCHANGED <<table, expr, sortBy, keys, err>>

NextPermute ==
    \/ permuteTableCall
    \/ permuteColumnCall
    \/ permuteToArrayCall

SpecPermute == InitPermute /\ [][NextPermute]_vars

\* The sort engine's entry points under one caller: a call of sortTable on keys
\* of any tags, or a call of permute or permuteToArray
InitSortEngine == InitTagged \/ InitPermute

NextSortEngine == Next \/ NextPermute

SpecSortEngine == InitSortEngine /\ [][NextSortEngine]_vars

----------------------------------------------------------------------------
(* Interpreter.cpp (src/unnamed/part_000)                                  *)
(*                                                                         *)
(* A Field is a scalar [shape, type, value] or an ArrayOperand             *)
(* [shape, type, data, owned, column]: data is the buffer read as elements *)
(* of the type, owned tells a buffer the operand allocated from a column's *)
(* buffer, column names the physical column whose buffer it wraps.         *)
(* An evaluation ends in a record [ok, ub, read, field, what]: a field      *)
(* returned or an exception's message; read is the set of physical columns *)
(* whose chunk was fetched; ub is set when an element was read from the    *)
(* buffer of a string column as a std::string, or a null operand pointer   *)
(* was dereferenced, which is undefined behaviour: the build either dies   *)
(* there or goes on as the record says.                                    *)

NoField == [shape |-> "none"]

Returned(f) == [ok |-> TRUE, ub |-> FALSE, read |-> {}, field |-> f, what |-> ""]

Thrown(msg) ==
    [ok |-> FALSE, ub |-> FALSE, read |-> {}, field |-> NoField, what |-> msg]

\* ArrayOperand(size_t length), filled by exec
OwnedArray(type, data) ==
    [shape |-> "array", type |-> type, data |-> data, owned |-> TRUE, column |-> 0]

Scalar(type, v) == [shape |-> "scalar", type |-> type, value |-> v]

\* the index ignored: every row reads the array's first element
getValueFirst(src, index) ==
    IF src.shape = "array" THEN src.data[1] ELSE src.value

\* getValue: element `index` of an array operand, a scalar itself
getValue(src, index) ==
    IF src.shape = "array" THEN src.data[index + 1] ELSE src.value

\* BINARY_OPERATOR(op), first overload: lhs op rhs on two values of one type; a
\* bool is stored as the byte 1 or 0
applyOperation(Operation, lhs, rhs) ==
    CASE Operation = "Plus" -> lhs + rhs
      [] Operation = "Minus" -> lhs - rhs
      [] Operation = "Times" -> lhs * rhs
      [] Operation = "GreaterThan" -> IF lhs > rhs THEN 1 ELSE 0
      [] Operation = "LessThan" -> IF lhs < rhs THEN 1 ELSE 0
      [] Operation = "EqualTo" -> IF lhs = rhs THEN 1 ELSE 0

\* OperandValue of exec: unsigned char for a bool result, else the result type
operandValueType(Operation, lhsType) ==
    IF Operation \in {"GreaterThan", "LessThan", "EqualTo"} THEN "uint8" ELSE lhsType

\* an element of the operand is read as a std::string out of a column's buffer
readsStringBuffer(f) == f.shape = "array" /\ f.type = "string"

\* exec<Operation>(lhs, rhs, count): the output array is allocated, then row by
\* row both values are fetched and Operation::exec applied; the overload for two
\* different types throws at the first row, so never on an empty table
exec(Operation, lhs, rhs, count) ==
    LET ub == count > 0 /\ (readsStringBuffer(lhs) \/ readsStringBuffer(rhs))
    IN  IF count > 0 /\ lhs.type # rhs.type
            THEN [ok |-> FALSE, ub |-> ub, read |-> {}, field |-> NoField,
                  what |-> "not supported operand types: " \o lhs.type
                           \o " and " \o rhs.type]
        ELSE IF ub \/ lhs.type # rhs.type
            THEN [ok |-> TRUE, ub |-> ub, read |-> {},
                  field |-> OwnedArray(operandValueType(Operation, lhs.type),
                                       [i \in 1..count |-> 0]),
                  what |-> ""]
        ELSE Returned(OwnedArray(operandValueType(Operation, lhs.type),
                 [i \in 1..count |->
                     applyOperation(Operation, getValue(lhs, i - 1), getValue(rhs, i - 1))]))

\* the chunk's values copied into a buffer of the operand's own
fieldFromColumnCopying(column, physical) ==
    IF Len(column.chunks) # 1
        THEN Thrown("not implemented: processing of chunked arrays")
        ELSE [ok |-> TRUE, ub |-> FALSE, read |-> {physical},
              field |-> OwnedArray(column.type,
                                   [i \in 1..Len(column.chunks[1]) |->
                                       column.chunks[1][i].value]),
              what |-> ""]

\* the guard left out: the first chunk of the column wrapped, the others ignored
fieldFromColumnFirstChunk(column, physical) ==
    [ok |-> TRUE, ub |-> FALSE, read |-> {physical},
     field |-> [shape |-> "array", type |-> column.type,
                data |-> [i \in 1..Len(column.chunks[1]) |->
                             column.chunks[1][i].value],
                owned |-> FALSE, column |-> physical],
     what |-> ""]

\* fieldFromColumn: the column's only chunk, its value buffer wrapped
fieldFromColumn(column, physical) ==
    IF Len(column.chunks) # 1
        THEN Thrown("not implemented: processing of chunked arrays")
        ELSE [ok |-> TRUE, ub |-> FALSE, read |-> {physical},
              field |-> [shape |-> "array", type |-> column.type,
                         data |-> [i \in 1..Len(column.chunks[1]) |->
                                      column.chunks[1][i].value],
                         owned |-> FALSE, column |-> physical],
              what |-> ""]

\* Interpreter::Interpreter: columns[i] = table.column(mapping.at(i))
boundColumn(t, mapping, columnRefId) == mapping[columnRefId + 1]

RECURSIVE evaluateValue(_, _, _)
\* an operand's exception caught and the operand taken as the scalar 0
evaluateOperandsRecovering(operands, t, mapping) ==
    LET first == evaluateValue(operands[1], t, mapping)
        second == evaluateValue(operands[2], t, mapping)
    IN  [ok |-> TRUE, ub |-> first.ub \/ second.ub,
         read |-> first.read \cup second.read,
         fields |-> <<IF first.ok THEN first.field ELSE Scalar("int64", 0),
                      IF second.ok THEN second.field ELSE Scalar("int64", 0)>>,
         what |-> ""]

\* evaluateOperands: operands[0], then operands[1], both dereferenced whatever the
\* node's arity; an exception in either ends it
evaluateOperands(operands, t, mapping) ==
    LET first == evaluateValue(operands[1], t, mapping)
    IN  IF ~first.ok
            THEN [ok |-> FALSE, ub |-> first.ub, read |-> first.read,
                  fields |-> <<>>, what |-> first.what]
            ELSE LET second == evaluateValue(operands[2], t, mapping)
                 IN  IF ~second.ok
                         THEN [ok |-> FALSE, ub |-> first.ub \/ second.ub,
                               read |-> first.read \cup second.read,
                               fields |-> <<>>, what |-> second.what]
                         ELSE [ok |-> TRUE, ub |-> first.ub \/ second.ub,
                               read |-> first.read \cup second.read,
                               fields |-> <<first.field, second.field>>, what |-> ""]

\* what follows the operands: the kernel's result, the undefined reads so far kept
afterOperands(operands, r) ==
    [ok |-> r.ok, ub |-> operands.ub \/ r.ub, read |-> operands.read \cup r.read,
     field |-> r.field, what |-> r.what]

\* Interpreter::evaluateValue.  A reference bound to an empty operand slot (the
\* null unique_ptr of a unary node) is undefined behaviour: the build dies at
\* the read of the variant's index, or goes on into the catch-all alternative
evaluateValue(value, t, mapping) ==
    CASE value.node = "ColumnReference" ->
            fieldFromColumn(t[boundColumn(t, mapping, value.columnRefId)],
                            boundColumn(t, mapping, value.columnRefId))
      [] value.node = "Literal" ->
            Returned(Scalar(value.type, value.literal))
      [] value.node = "null" ->
            [ok |-> FALSE, ub |-> TRUE, read |-> {}, field |-> NoField,
             what |-> "not implemented: value node of type"]
      [] value.node = "ValueOperation" ->
            LET operands == evaluateOperands(value.operands, t, mapping)
            IN  IF ~operands.ok
                    THEN [ok |-> FALSE, ub |-> operands.ub, read |-> operands.read,
                          field |-> NoField, what |-> operands.what]
                ELSE IF value.what = "Plus"
                    THEN afterOperands(operands,
                             exec("Plus", operands.fields[1], operands.fields[2],
                                  num_rows(t)))
                ELSE afterOperands(operands,
                         Thrown("not implemented: value operator " \o value.what))

\* the case of evaluate's switch: the kernel of a predicate operator ("" when the
\* default case takes it)
predicateKernelLesserAsGreater(what) ==
    CASE what = "Greater" -> "GreaterThan"
      [] what = "Lesser" -> "GreaterThan"
      [] what = "Equal" -> "EqualTo"
      [] OTHER -> ""

predicateKernel(what) ==
    CASE what = "Greater" -> "GreaterThan"
      [] what = "Lesser" -> "LessThan"
      [] what = "Equal" -> "EqualTo"
      [] OTHER -> ""

\* Interpreter::evaluate, the alternative of a PredicateFromValueOperation
evaluateComparison(elem, t, mapping) ==
    LET operands == evaluateOperands(elem.operands, t, mapping)
    IN  IF ~operands.ok
            THEN [ok |-> FALSE, ub |-> operands.ub, read |-> operands.read,
                  field |-> NoField, what |-> operands.what]
        ELSE IF predicateKernel(elem.what) # ""
            THEN afterOperands(operands,
                     exec(predicateKernel(elem.what), operands.fields[1],
                          operands.fields[2], num_rows(t)))
        ELSE afterOperands(operands,
                 Thrown("not implemented: predicate operator " \o elem.what))

\* a combinator answered by its first sub-predicate's mask
evaluateFirstSubPredicate(p, t, mapping) ==
    CASE p.node = "PredicateFromValueOperation" -> evaluateComparison(p, t, mapping)
      [] p.node = "PredicateOperation" -> evaluateComparison(p.operands[1], t, mapping)

\* Interpreter::evaluate
evaluate(p, t, mapping) ==
    CASE p.node = "PredicateFromValueOperation" -> evaluateComparison(p, t, mapping)
      [] p.node = "PredicateOperation" ->
            Thrown("not implemented: PredicateOperation")

----------------------------------------------------------------------------
(* Calls of the interpreter.  The bound table has four columns of n rows:  *)
(* Y (double, the row numbers), X (int64, any values), S (string) and Z    *)
(* (int64, X's values in two chunks).  The mapping names them X, Y, S, Z   *)
(* as column references 0, 1, 2, 3.                                        *)

InterpTables ==
    UNION {{<<[name |-> "Y", type |-> "double",
               chunks |-> <<[i \in 1..n |-> Cell(i - 1)]>>],
              [name |-> "X", type |-> "int64", chunks |-> <<x>>],
              [name |-> "S", type |-> "string",
               chunks |-> <<[i \in 1..n |-> Cell(0)]>>],
              [name |-> "Z", type |-> "int64",
               chunks |-> <<[i \in 1..(IF n = 0 THEN 0 ELSE 1) |-> x[i]],
                            [i \in 1..(n - 1) |-> x[i + 1]]>>]>> :
            x \in [1..n -> {Cell(v) : v \in IntValues}]} : n \in 0..MaxInterpRows}

Mapping == <<2, 1, 3, 4>>

ColumnReference(id) == [node |-> "ColumnReference", columnRefId |-> id]

Literal(type, v) == [node |-> "Literal", type |-> type, literal |-> v]

ValueOperation(what, a, b) ==
    [node |-> "ValueOperation", what |-> what, operands |-> <<a, b>>]

PredicateFromValueOperation(what, a, b) ==
    [node |-> "PredicateFromValueOperation", what |-> what, operands |-> <<a, b>>]

\* the leaves: the four column references and the literals
LeafValues ==
    {ColumnReference(id) : id \in 0..3}
    \cup {Literal("int64", v) : v \in IntLiterals}
    \cup {Literal("double", v) : v \in DoubleLiterals}

\* an operand: a leaf, or a sum of the column X or Y and a leaf
OperandValues ==
    LeafValues
    \cup {ValueOperation("Plus", ColumnReference(id), b) : id \in 0..1, b \in LeafValues}

\* the second slot of a unary node's operand array: an empty unique_ptr
NullOperand == [node |-> "null"]

\* the value trees handed to evaluateValue: sums and differences of operands,
\* products and quotients of leaves, and the unary Negate of a leaf
ValueTrees ==
    OperandValues
    \cup {ValueOperation(what, a, b) :
            what \in {"Plus", "Minus"}, a \in OperandValues, b \in OperandValues}
    \cup {ValueOperation(what, a, b) :
            what \in {"Times", "Divide"}, a \in LeafValues, b \in LeafValues}
    \cup {ValueOperation("Negate", a, NullOperand) : a \in LeafValues}

\* a tag of PredicateFromValueOperator that none of evaluate's cases names
UnlistedPredicateOperator == "Unlisted"

PredicateOperation(what, p, q) ==
    [node |-> "PredicateOperation", what |-> what, operands |-> <<p, q>>]

\* the comparisons a boolean combinator is built over: the column X, or the
\* column Z of two chunks, against a literal
CombinedPredicates ==
    {PredicateFromValueOperation(what, ColumnReference(id), Literal("int64", 2)) :
        what \in {"Greater", "Equal"}, id \in {0, 3}}

\* the predicate trees handed to evaluate and execute
PredicateTrees ==
    {PredicateFromValueOperation(what, a, b) :
        what \in {"Greater", "Lesser", "Equal"}, a \in OperandValues, b \in OperandValues}
    \cup {PredicateFromValueOperation(UnlistedPredicateOperator, a, b) :
            a \in LeafValues, b \in LeafValues}
    \cup {PredicateOperation(what, p, q) :
            what \in {"And", "Or"}, p \in CombinedPredicates, q \in CombinedPredicates}

InitInterp ==
    /\ table \in InterpTables
    /\ call = [op |-> "none", column |-> 0]
    /\ expr = NoExpression
    /\ sortBy = <<>>
    /\ pc = "ready"
    /\ keys = <<>>
    /\ indices = <<>>
    /\ ret = NoReturn
    /\ err = ""

\* how a call ends on an evaluation's record: killed at an undefined read, or
\* the field returned, or the exception out of the call
Outcomes(r) ==
    (IF r.ub THEN {"crashed"} ELSE {}) \cup {IF r.ok THEN "done" ELSE "failed"}

Finish(r, kind, outcome) ==
    /\ pc' = outcome
    /\ ret' = IF outcome = "done"
                  THEN [kind |-> kind,
                        shared |-> r.field.shape = "array" /\ ~r.field.owned,
                        value |-> r.field]
                  ELSE NoReturn
    /\ err' = IF outcome = "failed" THEN r.what ELSE ""

\* a call of Interpreter::evaluateValue on a value tree
evaluateValueCall ==
    /\ call.op = "none"
    /\ pc = "ready"
    /\ \E e \in ValueTrees :
         /\ expr' = e
         /\ call' = [op |-> "evaluateValue", column |-> 0]
         /\ \E outcome \in Outcomes(evaluateValue(e, table, Mapping)) :
              Finish(evaluateValue(e, table, Mapping), "field", outcome)
    /\ UNCHANGED <<table, sortBy, keys, indices>>

\* a call of Interpreter::evaluate on a predicate tree
evaluateCall ==
    /\ call.op = "none"
    /\ pc = "ready"
    /\ \E e \in PredicateTrees :
         /\ expr' = e
         /\ call' = [op |-> "evaluate", column |-> 0]
         /\ \E outcome \in Outcomes(evaluate(e, table, Mapping)) :
              Finish(evaluate(e, table, Mapping), "mask", outcome)
    /\ UNCHANGED <<table, sortBy, keys, indices>>

\* execute(table, predicate, mapping): an interpreter bound, the predicate
\* evaluated, the mask's buffer returned
executeCall ==
    /\ call.op = "none"
    /\ pc = "ready"
    /\ \E e \in PredicateTrees :
         /\ expr' = e
         /\ call' = [op |-> "execute", column |-> 0]
         /\ \E outcome \in Outcomes(evaluate(e, table, Mapping)) :
              Finish(evaluate(e, table, Mapping), "buffer", outcome)
    /\ UNCHANGED <<table, sortBy, keys, indices>>

NextInterp ==
    \/ evaluateValueCall
    \/ evaluateCall
    \/ executeCall

SpecInterp == InitInterp /\ [][NextInterp]_vars

----------------------------------------------------------------------------
(* XLSX.cpp: readXlsxFile                                                  *)
(*                                                                         *)
(* A sheet is [rows, columns, cells]: highest_row(), highest_column() and, *)
(* for every position <<column, row>> (1-based) of that range, a cell      *)
(* [exists, has_value, value]: no cell at the position, a cell without     *)
(* content, or a cell holding a number.  A column type is [type, nullable];*)
(* a builder is its column type and the slots appended so far.             *)

NoCell == [exists |-> FALSE, has_value |-> FALSE, value |-> 0]

BlankCell == [exists |-> TRUE, has_value |-> FALSE, value |-> 0]

NumberCell(v) == [exists |-> TRUE, has_value |-> TRUE, value |-> v]

\* xlnt::cell::to_string() of a one-digit number
to_string(v) == <<"0", "1", "2", "3", "4", "5", "6", "7", "8", "9">>[v + 1]

\* defaultValue<type>()
defaultValue(type) == IF type = "string" THEN "" ELSE 0

\* builder.AppendNull(): the validity bit cleared, the slot left at its default
nullSlot(type) == [valid |-> FALSE, value |-> defaultValue(type)]

\* ColumnBuilder::addMissing
addMissing(builder) ==
    IF builder.nullable
        THEN [builder EXCEPT !.slots = Append(@, nullSlot(builder.type))]
        ELSE [builder EXCEPT !.slots = Append(@, Cell(defaultValue(builder.type)))]

\* ColumnBuilder::addFromCell
addFromCell(builder, field) ==
    IF field.has_value
        THEN IF builder.type = "string"
                 THEN [builder EXCEPT !.slots = Append(@, Cell(to_string(field.value)))]
                 ELSE [builder EXCEPT !.slots = Append(@, Cell(field.value))]
        ELSE addMissing(builder)

\* the types readXlsxFile has a builder for
BuilderTypes == {"int64", "double", "string"}

\* lines 111-115: the column types, filled up to the sheet's columns with
\* non-nullable text
resizedColumnTypes(columnTypes, columnCount) ==
    IF Len(columnTypes) < columnCount
        THEN [i \in 1..columnCount |->
                 IF i <= Len(columnTypes)
                     THEN columnTypes[i]
                     ELSE [type |-> "string", nullable |-> FALSE]]
        ELSE columnTypes

RECURSIVE fillColumn(_, _, _, _, _)
\* the inner loop of lines 148-155: the cells of one column, row after row
\* (row is 0-based), added to the column's builder
fillColumn(builder, sheet, column, row, rowCount) ==
    IF row >= rowCount
        THEN builder
        ELSE LET field == sheet.cells[<<column + 1, row + 1>>]
             IN  fillColumn(IF field.exists
                                THEN addFromCell(builder, field)
                                ELSE addMissing(builder),
                            sheet, column, row + 1, rowCount)

\* readXlsxFile from the loaded sheet on: one column per builder, holding the
\* array the builder finished (lines 158-160), as handed to buildTable with
\* the column types (the columns' names, decided outside this file, are left
\* out), or the exception's message.  Only the first columnCount builders are
\* filled (line 146); a builder past them finishes the empty array
readXlsxFile(sheet, useFirstRowAsHeaders, columnTypes) ==
    LET rowCount == sheet.rows
        columnCount == sheet.columns
        types == resizedColumnTypes(columnTypes, columnCount)
        columnBuilders ==
            [i \in 1..Len(types) |->
                [type |-> types[i].type, nullable |-> types[i].nullable,
                 slots |-> <<>>]]
        filled ==
            [i \in 1..Len(types) |->
                IF i <= columnCount
                    THEN fillColumn(columnBuilders[i], sheet, i - 1,
                                    IF useFirstRowAsHeaders THEN 1 ELSE 0, rowCount)
                    ELSE columnBuilders[i]]
    IN  IF \E i \in 1..Len(types) : types[i].type \notin BuilderTypes
            THEN [ok |-> FALSE, what |-> "Failed to parse file", value |-> <<>>]
            ELSE [ok |-> TRUE, what |-> "",
                  value |-> [i \in 1..Len(types) |->
                                [type |-> filled[i].type,
                                 nullable |-> filled[i].nullable,
                                 chunks |-> <<filled[i].slots>>]]]

\* the numbers a cell of a sheet holds
SheetValues == {5, 7}

SheetCells == {NoCell, BlankCell} \cup {NumberCell(v) : v \in SheetValues}

\* the sheets of one or two columns: the last row and the last column of the
\* used range hold a cell, unless the range is the least one (a single row,
\* a single column)
SheetColumns == {1, 2}

Sheets ==
    UNION {{[rows |-> R, columns |-> C, cells |-> cells] :
            cells \in {f \in [(1..C) \X (1..R) -> SheetCells] :
                         /\ R > 1 => \E c \in 1..C : f[<<c, R>>].exists
                         /\ C > 1 => \E r \in 1..R : f[<<C, r>>].exists}} :
           R \in 1..MaxSheetRows, C \in SheetColumns}

\* the caller's column types: a builder type, nullable or not, or a type
\* readXlsxFile has no builder for
ColumnTypes ==
    [type : BuilderTypes, nullable : BOOLEAN] \cup {[type |-> "bool", nullable |-> FALSE]}

\* a list shorter than, as long as or longer than the sheet's column count
ColumnTypeLists(sheet) ==
    UNION {[1..k -> ColumnTypes] : k \in 0..(sheet.columns + MaxExtraTypes)}

InitXlsx ==
    /\ table = <<>>
    /\ \E sheet \in Sheets, header \in BOOLEAN :
         \E columnTypes \in ColumnTypeLists(sheet) :
            call = [op |-> "readXlsxFile", column |-> 0, sheet |-> sheet,
                    useFirstRowAsHeaders |-> header, columnTypes |-> columnTypes]
    /\ expr = NoExpression
    /\ sortBy = <<>>
    /\ pc = "ready"
    /\ keys = <<>>
    /\ indices = <<>>
    /\ ret = NoReturn
    /\ err = ""

\* a call of readXlsxFile on the caller's sheet, header policy and column types
readXlsxFileCall ==
    /\ call.op = "readXlsxFile"
    /\ pc = "ready"
    /\ LET r == readXlsxFile(call.sheet, call.useFirstRowAsHeaders, call.columnTypes)
       IN  /\ pc' = IF r.ok THEN "done" ELSE "failed"
           /\ ret' = IF r.ok
                         THEN [kind |-> "table", shared |-> FALSE, value |-> r.value]
                         ELSE NoReturn
           /\ err' = r.what
    /\ UNCHANGED <<table, call, expr, sortBy, keys, indices>>

NextXlsx == readXlsxFileCall

SpecXlsx == InitXlsx /\ [][NextXlsx]_vars

----------------------------------------------------------------------------
(* Both subsystems under one caller: a call of sortTable on keys of any    *)
(* tags, or a call of the interpreter.                                     *)

InitCalls == InitTagged \/ InitInterp

NextCalls == Next \/ NextInterp

SpecCalls == InitCalls /\ [][NextCalls]_vars

----------------------------------------------------------------------------
(* What the claims speak of, stated on the caller's inputs and the result  *)

\* row i (0-based) of a column, whatever its chunks
RowCell(column, i) == Flatten(column.chunks)[i + 1]

\* the key's cell of row i
KeyCell(key, i) == RowCell(table[key.column], i)

\* row i comes strictly before row j in the order one key declares
KeyBefore(key, i, j) ==
    LET a == KeyCell(key, i)
        b == KeyCell(key, j)
    IN  \/ a.valid /\ b.valid /\ key.order = "Ascending" /\ a.value < b.value
        \/ a.valid /\ b.valid /\ key.order = "Descending" /\ a.value > b.value
        \/ ~a.valid /\ b.valid /\ key.nulls = "Before"
        \/ a.valid /\ ~b.valid /\ key.nulls = "After"

\* rows i and j tie on one key: both null, or the same value
KeyTie(key, i, j) ==
    LET a == KeyCell(key, i)
        b == KeyCell(key, j)
    IN  \/ ~a.valid /\ ~b.valid
        \/ a.valid /\ b.valid /\ a.value = b.value

\* row i comes strictly before row j in the lexicographic order of the key list
LexBefore(K, i, j) ==
    \E k \in 1..Len(K) :
        /\ \A m \in 1..(k - 1) : KeyTie(K[m], i, j)
        /\ KeyBefore(K[k], i, j)

\* s holds every index of 0..n-1 exactly once
IsBijection(s, n) ==
    /\ Len(s) = n
    /\ \A r \in 0..(n - 1) : \E p \in 1..n : s[p] = r
    /\ \A p, q \in 1..n : p # q => s[p] # s[q]

\* the row count of the first key's column
FirstKeyRows == length(table[sortBy[1].column])

\* sortPermutation has returned (sortTable may have gone on to permute)
Sorted == pc \in {"sorted", "done"}

\* the values of a vector of cells without null
ValuesOf(v) == [i \in 1..Len(v) |-> v[i].value]

\* C1: for a non-empty key list, no row of the returned permutation comes after
\* its successor in the lexicographic order of the keys, and the table sortTable
\* returns holds, at every row p and in every column, row pi[p] of the input
C1_LexicographicOrder ==
    /\ Sorted =>
         \A p \in 1..(Len(indices) - 1) :
             ~LexBefore(sortBy, indices[p + 1], indices[p])
    /\ pc = "done" =>
         /\ ret.kind = "table"
         /\ Len(ret.value) = Len(table)
         /\ \A c \in 1..Len(table) :
              /\ ret.value[c].name = table[c].name
              /\ ret.value[c].type = table[c].type
              /\ length(ret.value[c]) = Len(indices)
              /\ \A p \in 1..Len(indices) :
                   RowCell(ret.value[c], p - 1) = RowCell(table[c], indices[p])

\* the rows (A=1,B=1), (A=1,B=0), (A=0,B=1) sorted by (A ascending, B ascending)
\* have become (0,1), (1,0), (1,1)
C1_Witness ==
    /\ pc = "done"
    /\ Len(sortBy) = 2
    /\ sortBy[1].column = 1 /\ sortBy[1].order = "Ascending"
    /\ sortBy[2].column = 2 /\ sortBy[2].order = "Ascending"
    /\ Flatten(table[1].chunks) = <<Cell(1), Cell(1), Cell(0)>>
    /\ Flatten(table[2].chunks) = <<Cell(1), Cell(0), Cell(1)>>
    /\ indices = <<2, 1, 0>>
    /\ Flatten(ret.value[1].chunks) = <<Cell(0), Cell(1), Cell(1)>>
    /\ Flatten(ret.value[2].chunks) = <<Cell(1), Cell(0), Cell(1)>>

\* C2: two rows i < j that tie on every key keep their input order in the
\* returned permutation, whatever the orders and null placements
C2_Stable ==
    Sorted =>
        \A p, q \in 1..Len(indices) :
            (/\ indices[p] < indices[q]
             /\ \A k \in 1..Len(sortBy) : KeyTie(sortBy[k], indices[p], indices[q]))
            => p < q

\* rows 0 and 2 of (A, B) = (0, null), (1, 0), (0, null) tie on both keys of
\* (A descending, B ascending); returned: row 1, then row 0, then row 2
C2_Witness ==
    /\ pc = "sorted"
    /\ Len(sortBy) = 2
    /\ sortBy[1].column = 1 /\ sortBy[1].order = "Descending"
    /\ sortBy[2].column = 2 /\ sortBy[2].order = "Ascending"
    /\ Flatten(table[1].chunks) = <<Cell(0), Cell(1), Cell(0)>>
    /\ Flatten(table[2].chunks) = <<NullCell, Cell(0), NullCell>>
    /\ KeyTie(sortBy[1], 0, 2) /\ KeyTie(sortBy[2], 0, 2)
    /\ ret.value = <<1, 0, 2>>

\* C3: the index sequence is the identity before the first stage and a bijection
\* on [0, n) after every stage and when returned, n the first key's row count
C3_Bijection ==
    /\ (pc = "stage" /\ Len(keys) = Len(sortBy)) =>
           indices = [i \in 1..FirstKeyRows |-> i - 1]
    /\ pc = "stage" => IsBijection(indices, FirstKeyRows)
    /\ Sorted => IsBijection(indices, FirstKeyRows)
    /\ pc = "sorted" => ret.kind = "permutation" /\ ret.value = indices

\* between the two stages of a two-key sort the sequence is a bijection that is
\* no longer the identity
C3_Witness ==
    /\ pc = "stage"
    /\ Len(sortBy) = 2
    /\ Len(keys) = 1
    /\ Len(indices) = MaxRows
    /\ indices # iotaVector(MaxRows)
    /\ IsBijection(indices, MaxRows)

\* C4: with one key, every null row stands before (placement Before) or after
\* (placement After) every non-null row under either order, the non-null rows are
\* ascending resp. descending, and the null rows keep their input order
C4_NullPlacement ==
    (Sorted /\ Len(sortBy) = 1) =>
        LET key == sortBy[1]
        IN  \A p, q \in 1..Len(indices) :
                p < q =>
                    LET a == KeyCell(key, indices[p])
                        b == KeyCell(key, indices[q])
                    IN  /\ (a.valid /\ ~b.valid) => key.nulls = "After"
                        /\ (~a.valid /\ b.valid) => key.nulls = "Before"
                        /\ (a.valid /\ b.valid /\ key.order = "Ascending")
                               => a.value <= b.value
                        /\ (a.valid /\ b.valid /\ key.order = "Descending")
                               => a.value >= b.value
                        /\ (~a.valid /\ ~b.valid) => indices[p] < indices[q]

\* the column [0, null, 1] sorted descending with nulls before: null, 1, 0
C4_Witness ==
    /\ pc = "sorted"
    /\ Len(sortBy) = 1
    /\ sortBy[1].order = "Descending"
    /\ sortBy[1].nulls = "Before"
    /\ Flatten(table[sortBy[1].column].chunks) = <<Cell(0), NullCell, Cell(1)>>
    /\ indices = <<1, 2, 0>>

\* C5: a call with an empty key list ends with the error "no column to sort by"
\* and returns neither a permutation nor a table
C5_EmptyKeyListFails ==
    (sortBy = <<>> /\ pc # "ready") =>
        /\ pc = "failed"
        /\ err = "no column to sort by"
        /\ ret = NoReturn

\* the call on an empty key list over a table with rows has failed
C5_Witness ==
    /\ sortBy = <<>>
    /\ pc = "failed"
    /\ num_rows(table) = MaxRows

\* an independent ascending sort of a vector of distinct values: the one
\* arrangement of the row indices along which the values increase
ReferenceSort(v) ==
    CHOOSE s \in [1..Len(v) -> 0..(Len(v) - 1)] :
        \A p \in 1..(Len(v) - 1) : v[s[p] + 1] < v[s[p + 1] + 1]

\* the key column holds no null and no value twice
NoNullNoDuplicate(column) ==
    LET v == Flatten(column.chunks)
    IN  /\ \A i \in 1..Len(v) : v[i].valid
        /\ \A i, j \in 1..Len(v) : i # j => v[i].value # v[j].value

\* C8: on a key column without null and without duplicate, the ascending
\* permutation is the reference sort's, and the descending permutation is the
\* reference sort's reversed, hence the reverse of the ascending one
C8_DescendingReversesAscending ==
    (pc = "sorted" /\ Len(sortBy) = 1 /\ NoNullNoDuplicate(table[sortBy[1].column])) =>
        LET reference == ReferenceSort(ValuesOf(Flatten(table[sortBy[1].column].chunks)))
        IN  /\ sortBy[1].order = "Ascending" => ret.value = reference
            /\ sortBy[1].order = "Descending" =>
                 /\ ret.value = reverse(reference)
                 /\ ret.value = reverse(sortPermutationInner(
                        iotaVector(Len(reference)), table[sortBy[1].column],
                        FALSE, "Ascending", sortBy[1].nulls))

\* the distinct column [2, 0, 3] sorted descending: rows 2, 0, 1
C8_Witness ==
    /\ pc = "sorted"
    /\ sortBy[1].order = "Descending"
    /\ ValuesOf(Flatten(table[sortBy[1].column].chunks)) = <<2, 0, 3>>
    /\ ret.value = <<2, 0, 1>>

\* column `got` holds, row by row, the rows idx names of column `from`, under
\* the same field
ColumnIsPermuted(got, from, idx) ==
    /\ got.name = from.name
    /\ got.type = from.type
    /\ length(got) = Len(idx)
    /\ \A i \in 1..Len(idx) : RowCell(got, i - 1) = RowCell(from, idx[i])

\* C6: for a bijection P on the table's rows, permute on the table gives the same
\* schema and, in every column, row P[i] of the input at row i; so do permute on
\* a column and permuteToArray for that column
C6_PermuteAppliesBijection ==
    (pc = "done" /\ IsBijection(indices, num_rows(table))) =>
        /\ call.op = "permuteTable" =>
             /\ ret.kind = "table"
             /\ Len(ret.value) = Len(table)
             /\ \A c \in 1..Len(table) :
                  ColumnIsPermuted(ret.value[c], table[c], indices)
        /\ call.op = "permuteColumn" =>
             /\ ret.kind = "column"
             /\ ColumnIsPermuted(ret.value, table[call.column], indices)
        /\ call.op = "permuteToArray" =>
             /\ ret.kind = "array"
             /\ Len(ret.value) = Len(indices)
             /\ \A i \in 1..Len(indices) :
                  ret.value[i] = RowCell(table[call.column], indices[i])

\* the table A = [1, null | 0], B = [0 | 1, 2] permuted by the cycle 1, 2, 0
C6_Witness ==
    /\ pc = "done"
    /\ call.op = "permuteTable"
    /\ indices = <<1, 2, 0>>
    /\ table[1].chunks = << <<Cell(1), NullCell>>, <<Cell(0)>> >>
    /\ ret.value[1].chunks = << <<NullCell, Cell(0), Cell(1)>> >>
    /\ ret.value[2].chunks = << <<Cell(1), Cell(2), Cell(0)>> >>

\* two columns hold the same rows under the same field (chunking aside)
ColumnValueEqual(x, y) ==
    /\ x.name = y.name
    /\ x.type = y.type
    /\ Flatten(x.chunks) = Flatten(y.chunks)

\* what the call returned against what the materializing path builds for the
\* same input and the same index sequence
EqualToMaterialized ==
    /\ call.op = "permuteTable" =>
         /\ Len(ret.value) = Len(table)
         /\ \A c \in 1..Len(table) :
              ColumnValueEqual(ret.value[c], permuteInnerTable(table, indices)[c])
    /\ call.op = "permuteColumn" =>
         ColumnValueEqual(ret.value, permuteInnerColumn(table[call.column], indices))
    /\ call.op = "permuteToArray" =>
         ret.value = permuteInnerToArray(table[call.column], indices)

\* C7 as claimed: a call that took the identity fast path returned its input
\* itself, and that is value-equal, row count included, to the materialized result
C7_FastPathEqualsMaterialized ==
    (pc = "done" /\ ret.shared) =>
        /\ isPermuteId(indices)
        /\ EqualToMaterialized

\* what an operand contributes, stated on the tree: a literal its value, a
\* reference to a numeric column in one chunk the column's slots, a sum that
\* evaluates to a numeric array that array
NumericTypes == {"int64", "double"}

OperandColumn(node) == table[Mapping[node.columnRefId + 1]]

NumericOperand(node) ==
    \/ node.node = "Literal" /\ node.type \in NumericTypes
    \/ /\ node.node = "ColumnReference"
       /\ Len(OperandColumn(node).chunks) = 1
       /\ OperandColumn(node).type \in NumericTypes
    \/ /\ node.node = "ValueOperation"
       /\ evaluateValue(node, table, Mapping).ok
       /\ ~evaluateValue(node, table, Mapping).ub
       /\ evaluateValue(node, table, Mapping).field.type \in NumericTypes

OperandType(node) ==
    CASE node.node = "Literal" -> node.type
      [] node.node = "ColumnReference" -> OperandColumn(node).type
      [] node.node = "ValueOperation" -> evaluateValue(node, table, Mapping).field.type

\* the operand's value at row i (0-based): a scalar is the same at every row
OperandAt(node, i) ==
    CASE node.node = "Literal" -> node.literal
      [] node.node = "ColumnReference" -> RowCell(OperandColumn(node), i).value
      [] node.node = "ValueOperation" ->
            evaluateValue(node, table, Mapping).field.data[i + 1]

\* both operands of the tree are numeric and of one element type
SameNumericOperands ==
    /\ NumericOperand(expr.operands[1])
    /\ NumericOperand(expr.operands[2])
    /\ OperandType(expr.operands[1]) = OperandType(expr.operands[2])

\* C9: evaluateValue of Plus over two operands of one numeric element type
\* returns a freshly allocated array of n elements of that type, element i the
\* sum of the operands' values at row i, a scalar counting the same at every row
C9_PlusBroadcasts ==
    (/\ pc # "ready"
     /\ call.op = "evaluateValue"
     /\ expr.node = "ValueOperation"
     /\ expr.what = "Plus"
     /\ SameNumericOperands) =>
        /\ pc = "done"
        /\ ret.kind = "field"
        /\ ret.value.shape = "array"
        /\ ret.value.owned
        /\ ~ret.shared
        /\ ret.value.type = OperandType(expr.operands[1])
        /\ Len(ret.value.data) = num_rows(table)
        /\ \A i \in 0..(num_rows(table) - 1) :
             ret.value.data[i + 1] =
                 OperandAt(expr.operands[1], i) + OperandAt(expr.operands[2], i)

\* the column X = [1, 2, 3] plus the literal 10 has given [11, 12, 13]
C9_Witness ==
    /\ pc = "done"
    /\ call.op = "evaluateValue"
    /\ expr = ValueOperation("Plus", ColumnReference(0), Literal("int64", 10))
    /\ ValuesOf(Flatten(table[2].chunks)) = <<1, 2, 3>>
    /\ ret.value.data = <<11, 12, 13>>

\* the relation a predicate operator stands for
Holds(what, x, y) ==
    \/ what = "Greater" /\ x > y
    \/ what = "Lesser" /\ x < y
    \/ what = "Equal" /\ x = y

StringArrayOperand(node) ==
    /\ node.node = "ColumnReference"
    /\ OperandColumn(node).type = "string"
    /\ Len(OperandColumn(node).chunks) = 1

NumericLiteral(node) == node.node = "Literal" /\ node.type \in NumericTypes

\* the tree is a Plus or a Greater/Lesser/Equal comparison
PlusOrComparison ==
    \/ expr.node = "ValueOperation" /\ expr.what = "Plus"
    \/ /\ expr.node = "PredicateFromValueOperation"
       /\ expr.what \in {"Greater", "Lesser", "Equal"}

\* one operand is a string array, the other a numeric literal
StringAgainstLiteral ==
    \/ StringArrayOperand(expr.operands[1]) /\ NumericLiteral(expr.operands[2])
    \/ NumericLiteral(expr.operands[1]) /\ StringArrayOperand(expr.operands[2])

\* C11 as claimed: whatever the row count, a Plus or a comparison between a
\* string array and a numeric literal ends with the type-mismatch error naming
\* both operand types, and returns no value
C11_StringMismatchFails ==
    (pc # "ready" /\ PlusOrComparison /\ StringAgainstLiteral) =>
        /\ pc = "failed"
        /\ ret = NoReturn
        /\ err = "not supported operand types: " \o OperandType(expr.operands[1])
                 \o " and " \o OperandType(expr.operands[2])

\* the evaluation of the caller's tree over the bound table
Evaluation ==
    IF expr.node \in {"PredicateFromValueOperation", "PredicateOperation"}
        THEN evaluate(expr, table, Mapping)
        ELSE evaluateValue(expr, table, Mapping)

\* the physical columns kept in a number of chunks other than one
ChunkedColumns == {c \in 1..Len(table) : Len(table[c].chunks) # 1}

RECURSIVE ContainsChunkedReference(_)
\* the tree holds, at some depth, a reference to a column of several chunks
ContainsChunkedReference(node) ==
    CASE node.node = "ColumnReference" -> Mapping[node.columnRefId + 1] \in ChunkedColumns
      [] node.node \in {"ValueOperation", "PredicateFromValueOperation",
                        "PredicateOperation"} ->
            \E k \in 1..Len(node.operands) : ContainsChunkedReference(node.operands[k])
      [] OTHER -> FALSE

RECURSIVE ChunkedReferenceReached(_)
\* going left to right, the evaluation comes to the reference before anything
\* else ends it: every operand evaluated before it evaluated without error
ChunkedReferenceReached(node) ==
    CASE node.node = "ColumnReference" -> Mapping[node.columnRefId + 1] \in ChunkedColumns
      [] node.node \in {"ValueOperation", "PredicateFromValueOperation"} ->
            \/ ChunkedReferenceReached(node.operands[1])
            \/ /\ evaluateValue(node.operands[1], table, Mapping).ok
               /\ ~evaluateValue(node.operands[1], table, Mapping).ub
               /\ ChunkedReferenceReached(node.operands[2])
      [] OTHER -> FALSE

\* C12 as claimed: every tree that holds a reference to a column of several
\* chunks ends with "not implemented: processing of chunked arrays", whatever
\* the operator and the other operand
C12_ChunkedAlwaysUnsupported ==
    (pc # "ready" /\ ContainsChunkedReference(expr)) =>
        /\ pc = "failed"
        /\ ret = NoReturn
        /\ err = "not implemented: processing of chunked arrays"

\* C12, amended: a tree that holds a reference to a column of several chunks never
\* returns a value and no chunk of that column is fetched; the call ends with
\* "not implemented: processing of chunked arrays" when the evaluation, going
\* left to right, comes to the reference before another operand ended it
C12_ChunkedReferenceFails ==
    (pc # "ready" /\ ContainsChunkedReference(expr)) =>
        /\ pc # "done"
        /\ ret = NoReturn
        /\ Evaluation.read \cap ChunkedColumns = {}
        /\ ChunkedReferenceReached(expr) =>
             /\ pc = "failed"
             /\ err = "not implemented: processing of chunked arrays"

\* the literal 10 plus the column Z of two chunks, over three rows, has failed
\* on the chunks after the literal evaluated
C12_Witness ==
    /\ pc = "failed"
    /\ call.op = "evaluateValue"
    /\ expr = ValueOperation("Plus", Literal("int64", 10), ColumnReference(3))
    /\ num_rows(table) = MaxInterpRows
    /\ Len(table[4].chunks) = 2
    /\ ret = NoReturn
    /\ err = "not implemented: processing of chunked arrays"

\* C13: evaluate (and execute) on a PredicateOperation ends with the error
\* "not implemented: PredicateOperation", returns no mask, and evaluates none of
\* its sub-predicates: no column is fetched, whether a sub-predicate would have
\* evaluated or failed
C13_CombinatorNotImplemented ==
    (pc # "ready" /\ expr.node = "PredicateOperation") =>
        /\ pc = "failed"
        /\ ret = NoReturn
        /\ err = "not implemented: PredicateOperation"
        /\ Evaluation.read = {}

\* evaluate on (X > 2) And (X = 2) over three rows, both sub-predicates fit to
\* evaluate, has failed
C13_Witness ==
    /\ pc = "failed"
    /\ call.op = "evaluate"
    /\ expr = PredicateOperation("And",
                 PredicateFromValueOperation("Greater", ColumnReference(0),
                                             Literal("int64", 2)),
                 PredicateFromValueOperation("Equal", ColumnReference(0),
                                             Literal("int64", 2)))
    /\ num_rows(table) = MaxInterpRows
    /\ evaluate(expr.operands[1], table, Mapping).ok
    /\ evaluate(expr.operands[2], table, Mapping).ok
    /\ err = "not implemented: PredicateOperation"

\* the value operators evaluateValue's switch has no case for
UnimplementedValueOperators == {"Minus", "Times", "Divide", "Negate"}

\* C14 as claimed: evaluateValue on a ValueOperation with an operator outside
\* the implemented subset, a unary Negate with its one operand included, ends
\* with a raised error and returns no value; evaluate on a comparison with an
\* operator other than Greater, Lesser, Equal ends with a not-implemented error
C14_UnimplementedOperatorsRaise ==
    /\ (/\ pc # "ready"
        /\ expr.node = "ValueOperation"
        /\ expr.what \in UnimplementedValueOperators) =>
           /\ pc = "failed"
           /\ err # ""
           /\ ret = NoReturn
    /\ (/\ pc # "ready"
        /\ expr.node = "PredicateFromValueOperation"
        /\ expr.what \notin {"Greater", "Lesser", "Equal"}) =>
           /\ pc = "failed"
           /\ ret = NoReturn
           /\ (evaluateOperands(expr.operands, table, Mapping).ok
                   => err = "not implemented: predicate operator " \o expr.what)

InterpreterCalls == {"evaluateValue", "evaluate", "execute"}

\* the node evaluates operands
HasOperands(node) == node.node \in {"ValueOperation", "PredicateFromValueOperation"}

\* the operand (1 or 2) whose evaluation, going left to right, raises first;
\* 0 when both evaluate
FirstRaising(node) ==
    IF ~evaluateValue(node.operands[1], table, Mapping).ok THEN 1
    ELSE IF ~evaluateValue(node.operands[2], table, Mapping).ok THEN 2
    ELSE 0

\* the call has ended without a value, and if by an exception then by this one
AbortedWith(what) ==
    /\ pc \in {"failed", "crashed"}
    /\ ret = NoReturn
    /\ pc = "failed" => err = what

\* some key of the list carries a tag outside its enumeration
SomeKeyOutOfEnumeration ==
    \E k \in 1..Len(sortBy) :
        sortBy[k].order \notin SortOrder \/ sortBy[k].nulls \notin NullPosition

\* a call that ended with an error returned nothing; an operand that raises, at
\* depth 1 or at depth 2, ends the interpreter's call with its error; a key
\* stage that raises ends sortPermutation and sortTable
NoPartialResult ==
    /\ pc \in {"failed", "crashed"} => ret = NoReturn
    /\ pc = "failed" => err # ""
    /\ (pc # "ready" /\ call.op \in InterpreterCalls /\ HasOperands(expr)
            /\ FirstRaising(expr) # 0) =>
          LET o == expr.operands[FirstRaising(expr)]
          IN  /\ AbortedWith(evaluateValue(o, table, Mapping).what)
              /\ (HasOperands(o) /\ FirstRaising(o) # 0) =>
                    AbortedWith(evaluateValue(o.operands[FirstRaising(o)],
                                              table, Mapping).what)
    /\ (call.op = "sortTable" /\ pc \notin {"ready", "stage"}
            /\ SomeKeyOutOfEnumeration) =>
          /\ pc = "failed"
          /\ ret = NoReturn
          /\ err = "dispatch: invalid value"

\* C15: every error aborts the whole call with no partial result, in the
\* interpreter at any depth of the tree and in the sort at any key stage, and a
\* call that ended with an error takes no further step: nothing is retried
C15_ErrorsAbortCall ==
    /\ []NoPartialResult
    /\ [][pc \notin {"failed", "crashed"}]_vars

\* (X + Z) + 10 over three rows: the chunked column Z, an operand at depth 2,
\* has raised and evaluateValue has failed with that error
C15_Witness ==
    /\ pc = "failed"
    /\ call.op = "evaluateValue"
    /\ expr = ValueOperation("Plus",
                 ValueOperation("Plus", ColumnReference(0), ColumnReference(3)),
                 Literal("int64", 10))
    /\ num_rows(table) = MaxInterpRows
    /\ ret = NoReturn
    /\ err = "not implemented: processing of chunked arrays"

\* the data rows of the imported sheet (0-based): all but the header row
FirstDataRow == IF call.useFirstRowAsHeaders THEN 1 ELSE 0

\* the sheet's cell behind row `row` (0-based) of column `column` (0-based)
SourceCell(column, row) == call.sheet.cells[<<column + 1, row + 1>>]

\* the slot readXlsxFile produced for that cell
ImportedSlot(column, row) ==
    ret.value[column + 1].chunks[1][row - FirstDataRow + 1]

\* the cell's number converted to the column's type
ConvertedValue(type, v) == IF type = "string" THEN to_string(v) ELSE v

\* C16 as claimed: in every column of the sheet and every data row, the
\* imported value is null whenever the source cell does not exist or has no
\* content, and otherwise is the cell's value converted to the column's type
C16_MissingCellsAreNull ==
    (call.op = "readXlsxFile" /\ pc = "done") =>
        \A column \in 0..(call.sheet.columns - 1) :
            \A row \in FirstDataRow..(call.sheet.rows - 1) :
                LET field == SourceCell(column, row)
                    slot == ImportedSlot(column, row)
                IN  IF field.exists /\ field.has_value
                        THEN /\ slot.valid
                             /\ slot.value =
                                  ConvertedValue(ret.value[column + 1].type, field.value)
                        ELSE ~slot.valid

\* what is left of sortPermutation's private copy: the last Len(keys) entries of
\* the caller's list reversed
KeysLeftOfReversedCopy ==
    keys = SubSeq(reverse(sortBy), Len(sortBy) - Len(keys) + 1, Len(sortBy))

\* the result of a permute call is what the entry point gives on the table and
\* the index sequence the caller holds after the call
ResultOfInputsAsTheyAre ==
    /\ call.op = "permuteTable" => ret = permuteTable(table, indices)
    /\ call.op = "permuteColumn" => ret = permuteColumn(table[call.column], indices)
    /\ call.op = "permuteToArray" => ret = permuteToArray(table[call.column], indices)

\* a materialized result shares no column with the input: it is built anew
BuiltAnew == (pc = "done" /\ ret.kind \in {"table", "column", "array"}
                 /\ ~isPermuteId(indices)) => ~ret.shared

\* C17: no step of sortPermutation, sortTable or permute, in a call that
\* succeeds, fails or materializes, changes a column of the input table or the
\* caller's sort-key list; the reversal is applied to the private copy; after a
\* permute call the caller's index sequence is the one the result was built from
C17_InputsUnchanged ==
    /\ [][table' = table /\ sortBy' = sortBy]_vars
    /\ [](pc = "stage" => KeysLeftOfReversedCopy)
    /\ [](pc = "done" => ResultOfInputsAsTheyAre)
    /\ []BuiltAnew

\* sortTable by (A descending, B ascending) on two rows has reordered the rows;
\* the private copy was consumed reversed, the caller's list is as it was passed
C17_Witness ==
    /\ pc = "done"
    /\ call.op = "sortTable"
    /\ Len(sortBy) = 2
    /\ sortBy[1].column = 1 /\ sortBy[1].order = "Descending"
    /\ sortBy[2].column = 2 /\ sortBy[2].order = "Ascending"
    /\ sortBy # reverse(sortBy)
    /\ Flatten(table[1].chunks) = <<Cell(0), Cell(1)>>
    /\ indices = <<1, 0>>
    /\ ~ret.shared
    /\ Flatten(ret.value[1].chunks) = <<Cell(1), Cell(0)>>

\* the call ended the way the evaluation of the tree, as the caller holds it
\* after the call, over the table, as it stands after the call, ends
OutcomeOfInputsAsTheyAre ==
    /\ pc \in Outcomes(Evaluation)
    /\ pc = "done" => ret.value = Evaluation.field
    /\ pc = "failed" => err = Evaluation.what

PlaceOf(s, r) == CHOOSE p \in 1..Len(s) : s[p] = r

\* `after` is `before` stably sorted by the one key under exactly its order and
\* its null placement: the same rows, none standing after a row it comes before,
\* and rows that tie standing as they stood
StableSortedBy(key, before, after) ==
    /\ IsBijection(after, Len(before))
    /\ \A p, q \in 1..Len(after) :
         p < q =>
            /\ ~KeyBefore(key, after[q], after[p])
            /\ KeyTie(key, after[p], after[q]) =>
                  PlaceOf(before, after[p]) < PlaceOf(before, after[q])

\* the stage of the key at the head of the private copy: with a tag outside its
\* enumeration the stage throws at dispatch and the indices stay as they were;
\* otherwise the indices come out sorted by that key's own combination
StageDispatched ==
    (pc = "stage" /\ keys # <<>>) =>
        LET key == Head(keys)
        IN  IF key.order \notin SortOrder \/ key.nulls \notin NullPosition
                THEN /\ pc' = "failed"
                     /\ err' = "dispatch: invalid value"
                     /\ indices' = indices
                     /\ ret' = NoReturn
                ELSE /\ pc' = "stage"
                     /\ err' = ""
                     /\ StableSortedBy(key, indices, indices')

\* C19: a key whose order tag or null-placement tag is outside its enumeration
\* makes its stage, and with it sortPermutation, fail at dispatch before any
\* comparison of the stage; for every combination of tags inside the
\* enumerations, on a column with or without nulls, the stage sorts by exactly
\* that combination
C19_DispatchOfTags ==
    /\ [][StageDispatched]_vars
    /\ []((SomeKeyOutOfEnumeration /\ pc \notin {"ready", "stage"}) =>
             (pc = "failed" /\ err = "dispatch: invalid value"))

\* the single key (A ascending, null placement out of its enumeration) on
\* A = [1, 0]: failed at dispatch, the indices still the identity
C19_Witness ==
    /\ pc = "failed"
    /\ Len(sortBy) = 1
    /\ sortBy[1].column = 1
    /\ sortBy[1].order = "Ascending"
    /\ sortBy[1].nulls = OutOfEnumeration
    /\ Flatten(table[1].chunks) = <<Cell(1), Cell(0)>>
    /\ indices = <<0, 1>>
    /\ err = "dispatch: invalid value"
    /\ ret = NoReturn

\* both operands of the tree are numeric, of one element type or of two
BothNumericOperands ==
    /\ NumericOperand(expr.operands[1])
    /\ NumericOperand(expr.operands[2])

\* C20 as claimed: on a table of at least one row, Plus or a comparison over two
\* numeric operands, int64 or double in any mix, scalar or array, returns one
\* output value per row and raises no error
C20_MixedNumericKernel ==
    (/\ pc # "ready"
     /\ call.op \in InterpreterCalls
     /\ PlusOrComparison
     /\ BothNumericOperands
     /\ num_rows(table) >= 1) =>
        /\ pc = "done"
        /\ ret.value.shape = "array"
        /\ Len(ret.value.data) = num_rows(table)

\* the arrays readXlsxFile built, one per column of the returned table
BuiltArrays == [i \in 1..Len(ret.value) |-> ret.value[i].chunks[1]]

\* the column builders of the call: one per entry of the resized column types
BuilderCount ==
    Len(resizedColumnTypes(call.columnTypes, call.sheet.columns))

\* the sheet's rows without the header row
DataRowCount == call.sheet.rows - FirstDataRow

\* C21 as claimed: for every sheet and every list of column types, shorter
\* than, as long as or longer than the sheet's column count, a table the import
\* produced has one array per column builder, all arrays have the same length,
\* and that length is the sheet's row count, less one when the first row is
\* taken as headers
C21_ImportedTableInvariant ==
    (call.op = "readXlsxFile" /\ pc = "done") =>
        /\ Len(BuiltArrays) = BuilderCount
        /\ \A i \in 1..Len(BuiltArrays) : Len(BuiltArrays[i]) = DataRowCount

====
